---- MODULE Spec2Model ----
(***************************************************************************)
(* Housekeeping of the Yorkie backend: every replica runs one loop per     *)
(* sweep kind (client deactivation, document hard deletion).  An iteration *)
(* takes the kind's cluster-wide lock, pages through the projects from the *)
(* loop's cursor, collects candidates per project, applies the action and  *)
(* releases the lock.  The model follows                                   *)
(* server/backend/housekeeping/housekeeping.go statement by statement: one *)
(* action per call that leaves the process (coordinator or database).      *)
(***************************************************************************)
EXTENDS Integers, Sequences, FiniteSets, TLC

\* ---------------------------------------------------------------- bounds
NumReplicas == 2
MaxAttached == 2
MaxProjects == 3
MaxFetchSize == 2
MaxCandidateLimit == 2
RecordsPerProject == 2

\* ------------------------------------------------------------- constants
\* database.DefaultProjectID, the start-of-cycle sentinel; real projects
\* have identities 1, 2, ... in the store's order.
DefaultProjectID == 0

Replicas == 1..NumReplicas
Kinds == {"deactivate", "delete"}
Loops == Replicas \X Kinds
NoHolder == 0

VARIABLES
    numProjects,        \* the store's projects are 1..numProjects
    projectFetchSize,   \* Housekeeping.projectFetchSize
    candidateLimit,     \* the per-project candidate limit, by kind
    build,              \* replica -> the sweep entry points it runs: those
                        \*         of housekeeping.go ("current"), of the
                        \*         older part_000 or of package clients
    host,               \* replica -> the Housekeeping instance (process)
                        \*         whose goroutines these loops are
    cancelled,          \* replica -> h.ctx is done (Stop() was called)
    pc,                 \* loop -> position of the goroutine
    cursor,             \* loop -> housekeepingLastProjectID of the Attach loop
    projects,           \* loop -> page returned by FindNextNCyclingProjectInfos
    idx,                \* loop -> index of the range loop in progress
    candidates,         \* loop -> candidates collected by this iteration
    lastProjectID,      \* loop -> topProjectID computed by Find...Candidates
    err,                \* loop -> error the iteration is returning with
    ret,                \* loop -> what the last executor call returned
    trace,              \* loop -> external calls of the current/last iteration
    lockHolder,         \* lock key -> replica holding it, or NoHolder
    staleLease,         \* lock keys whose holder's Unlock failed and left it held
    records,            \* kind -> candidate records still in the store
    visited,            \* loop -> projects fetched by the successful iterations
                        \*         since the loop last started from the sentinel
    rounds,             \* loop -> number of those iterations
    via                 \* loop -> how the loop came to its executor call

vars == <<numProjects, projectFetchSize, candidateLimit, cancelled,
          pc, cursor, projects, idx, candidates, lastProjectID, err, ret,
          trace, lockHolder, staleLease, records, visited, rounds, via, build, host>>

config == <<numProjects, projectFetchSize, candidateLimit, build, host>>
locals == <<projects, idx, candidates, lastProjectID, err>>
locks == <<lockHolder, staleLease>>
history == <<visited, rounds>>
Builds == {"current", "part_000", "clients"}

\* --------------------------------------------------------------- helpers
Min(a, b) == IF a < b THEN a ELSE b

SortedSeq(S) ==
    [i \in 1..Cardinality(S) |->
        CHOOSE x \in S : Cardinality({y \in S : y < x}) = i - 1]

Range(s) == {s[i] : i \in 1..Len(s)}

\* The last n elements of s (all of s when it has no more than n).
LastN(s, n) == IF Len(s) <= n THEN s ELSE SubSeq(s, Len(s) - n + 1, Len(s))

Ev(op, arg, ok) == [op |-> op, arg |-> arg, ok |-> ok]

\* The lock names of the two sweeps.
deactivateCandidatesKey == "housekeeping/deactivateCandidates"
documentHardDeletionLockKey == "housekeeping/DocumentHardDeletionLock"

\* The lock names of package clients and of part_000 (whose
\* deactivateCandidatesKey is that of housekeeping.go).
DocumentHardDeletionLockKey == "housekeeping/documentHardDeletionLock"
DeactivateCandidatesKey == "housekeeping/deactivateCandidates"
hardDeletionLockKey == "housekeeping/hardDeletionLock"

LockKeys == {deactivateCandidatesKey, documentHardDeletionLockKey,
             DocumentHardDeletionLockKey, DeactivateCandidatesKey,
             hardDeletionLockKey}

\* Mutant: both sweeps name the lock of the client deactivation.
LockKeyOf_Shared(k) == deactivateCandidatesKey

\* The lock name each executor hands to NewLocker.
LockKeyOf(k) ==
    IF k = "deactivate" THEN deactivateCandidatesKey
    ELSE documentHardDeletionLockKey

\* The lock name of the sweep entry point of kind k in build b:
\* clients.DeactivateInactives and clients.DeleteDocuments, part_000's
\* deactivateCandidates and documentHardDeletion, and the executors of
\* housekeeping.go.
LockNameOf(b, k) ==
    CASE b = "clients" ->
            IF k = "deactivate" THEN DeactivateCandidatesKey
            ELSE DocumentHardDeletionLockKey
      [] b = "part_000" ->
            IF k = "deactivate" THEN deactivateCandidatesKey
            ELSE hardDeletionLockKey
      [] OTHER -> LockKeyOf(k)

\* ------------------------------------------------------- store interface
RecordsOf(t) ==
    {(t - 1) * RecordsPerProject + j : j \in 1..RecordsPerProject}

AllRecords == UNION {RecordsOf(t) : t \in 1..numProjects}

\* database.FindNextNCyclingProjectInfos: up to pageSize projects strictly
\* after lastID, in identity order; a call does not wrap.
FindNextNCyclingProjectInfos(pageSize, lastID) ==
    [i \in 1..Min(pageSize, numProjects - lastID) |-> lastID + i]

\* database.FindDeactivateCandidatesPerProject and
\* database.FindDocumentHardDeletionCandidatesPerProject: the first `limit`
\* eligible records of the project.
FindCandidatesPerProject(k, project, limit) ==
    LET all == SortedSeq(records[k] \cap RecordsOf(project))
    IN  SubSeq(all, 1, Min(limit, Len(all)))

\* database.DeleteDocument's count of the documents actually removed: any
\* number up to the size of the batch (0 is reported with an error).
DeletedCounts(ok, n) == IF ok THEN 0..n ELSE {0}

\* database.HardDeletion of part_000 returns an identity the source says
\* nothing about; database.DeleteDocument returns none, and the model keeps
\* the identity of the listing in its place.
ReturnedIDs(b, ok, top) ==
    IF ok /\ b = "part_000" THEN 0..numProjects ELSE {top}

\* ------------------------------------------------------------ pure code
\* Mutant: <= for <.
TopProjectID_OffByOne(projs, fetchSize) ==
    IF Len(projs) <= fetchSize THEN DefaultProjectID ELSE projs[Len(projs)]

\* Mutant: the first project of the page for the last.
TopProjectID_First(projs, fetchSize) ==
    IF Len(projs) < fetchSize THEN DefaultProjectID ELSE projs[1]

\* Mutant: the cursor is never advanced.
TopProjectID_AlwaysSentinel(projs, fetchSize) == DefaultProjectID

\* Find...Candidates: the cursor that the iteration returns.
TopProjectID(projs, fetchSize) ==
    IF Len(projs) < fetchSize THEN DefaultProjectID ELSE projs[Len(projs)]

\* Find...Candidates: projects[len(projects)-1] is evaluated on a page that
\* is not shorter than projectFetchSize; on an empty page the index is -1
\* and the goroutine panics.
IndexOutOfRange(projs, fetchSize) == ~(Len(projs) < fetchSize) /\ Len(projs) = 0

\* Mutant: the page size is passed where the per-project limit belongs.
LookupLimit_FetchSize(limit, fetchSize) == fetchSize * limit

\* Find...Candidates: the limit handed to every per-project lookup.
LookupLimit(limit, fetchSize) == limit

\* Mutant: the lookup result is put in front of the batch.
AppendInfos_InFront(cands, infos) == infos \o cands

\* Find...Candidates: candidates = append(candidates, infos...).
AppendInfos(cands, infos) == cands \o infos

\* --------------------------------------------------- control flow (code)
NoError == "none"
Pending == "pending"
Panic == "panic"

\* Mutant: Lock is never called.
AfterNewLocker_NoLock(ok) == IF ok THEN "list" ELSE "return"

\* NewLocker's error check: go on to Lock, or return the error.
AfterNewLocker(ok) == IF ok THEN "lock" ELSE "return"

\* Mutant: the error of Lock is dropped.
AfterLock_ErrorIgnored(ok) == "list"

\* Lock's error check: go on to Find...Candidates, or return the error.
AfterLock(ok) == IF ok THEN "list" ELSE "return"

\* Mutant: no defer; the return on a listing error forgets the Unlock.
ExitOf_NotDeferred(position) ==
    IF position \in {"call", "lock", "list"} THEN "return" ELSE "unlock"

\* Mutant: the Unlock is deferred before Lock is called.
ExitOf_DeferredEarly(position) ==
    IF position = "call" THEN "return" ELSE "unlock"

\* Where a return statement leads: the Unlock is deferred once Lock has
\* succeeded, so every later return runs it first.
ExitOf(position) ==
    IF position \in {"call", "lock"} THEN "return" ELSE "unlock"

\* Mutant: a failed Deactivate is skipped and the loop goes on.
AfterDeactivate_GoesOn(ok, i, n) ==
    IF i < n THEN "next" ELSE IF ok THEN "done" ELSE "fail"

\* The range loop over the candidates of deactivateCandidates: the first
\* failing clients.Deactivate returns; otherwise on to the next candidate.
AfterDeactivate(ok, i, n) ==
    IF ~ok THEN "fail" ELSE IF i < n THEN "next" ELSE "done"

\* Mutant: a failed lookup skips its tenant and the range loop goes on.
AfterLookup_SkipsTenant(ok, i, n) == IF i < n THEN "next" ELSE "done"

\* The range loop over the page of Find...Candidates: the first failing
\* lookup returns; otherwise on to the next project of the page.
AfterLookup(ok, i, n) ==
    IF ~ok THEN "fail" ELSE IF i < n THEN "next" ELSE "done"

\* Mutant: a failed Unlock turns a successful iteration into a failed one.
AfterUnlock_Escalated(e, released) ==
    IF e = NoError /\ ~released THEN "unlock" ELSE e

\* The deferred function logs the error of Unlock and drops it: the
\* executor returns the error it was returning with.
AfterUnlock(e, released) == e

\* Mutant: a deleted count below the batch size is taken for a failure.
AfterDelete_CountChecked(ok, deleted, n) ==
    IF ok /\ deleted = n THEN NoError ELSE "action"

\* DeleteDocument: only the error of the store call is checked.
AfterDelete(ok, deleted, n) == IF ok THEN NoError ELSE "action"

\* What the hard-deletion executor returns on success: housekeeping.go
\* returns the cursor of the listing; part_000 assigns the identity that
\* database.HardDeletion returns to lastProjectID and returns that.
DeleteResultID(b, top, id) == IF b = "part_000" THEN id ELSE top

\* The identity an executor returns next to its error.
ReturnID(e, top) == IF e # NoError THEN DefaultProjectID ELSE top

\* Mutant: the returned identity is assigned before the error check.
AdoptCursor_BeforeCheck(cur, id, e) == id

\* The Attach loop: an error leaves housekeepingLastProjectID alone.
AdoptCursor(cur, id, e) == IF e # NoError THEN cur ELSE id

\* Mutant: the loop waits for the interval after a failed iteration too.
AfterIteration_AlwaysWait(e) == "wait"

\* The Attach loop: `continue` on an error, the select otherwise.
AfterIteration(e) == IF e # NoError THEN "call" ELSE "wait"

\* How the loop comes back to the top of its for body: by the `continue`
\* after an error; after a success it is in the select, not at the top.
ViaOf(e) == IF e # NoError THEN "retry" ELSE "none"

\* Mutant: the sweep runs under h.ctx, so the action observes the cancel.
ObservesCancel_InSweep(position) == position \in {"wait", "act"}

\* The only place a loop reads h.ctx.Done() is its select.
ObservesCancel(position) == position = "wait"

\* Mutant: the batch-result log line is written for every batch.
LogsResult_Always(n) == TRUE

\* The batch-result log line is written for a non-empty batch only.
LogsResult(n) == n > 0

\* ------------------------------------------------------------------ Init
\* The loops the hosts have attached: Start() attaches both loops of a
\* replica, and the exported Attach methods can be run one at a time.
\* Replicas are interchangeable, so replica r+1 runs loops only if r does.
Deployments ==
    {f \in [Loops -> {"idle", "call"}] :
        /\ Cardinality({l \in Loops : f[l] = "call"}) \in 1..MaxAttached
        /\ \A l \in Loops :
              f[l] = "call" /\ l[1] > 1 =>
                  \E k \in Kinds : f[<<l[1] - 1, k>>] = "call"}

\* Every replica is a process with a Housekeeping instance of its own.
OwnHost == [r \in Replicas |-> r]

\* The state after New and the Attach calls of a deployment, for the given
\* configured page sizes, builds and assignments of loops to instances.
Setup(fetchSizes, builds, hosts) ==
    /\ pc \in Deployments
    /\ numProjects \in 0..MaxProjects
    /\ numProjects * Cardinality({l \in Loops : pc[l] = "call"}) <= MaxProjects
    /\ projectFetchSize \in fetchSizes
    /\ build \in [Replicas -> builds]
    /\ host \in hosts
    /\ \E n \in 1..MaxCandidateLimit : candidateLimit = [k \in Kinds |-> n]
    /\ cancelled = [r \in Replicas |-> FALSE]
    /\ cursor = [l \in Loops |-> DefaultProjectID]
    /\ projects = [l \in Loops |-> <<>>]
    /\ idx = [l \in Loops |-> 0]
    /\ candidates = [l \in Loops |-> <<>>]
    /\ lastProjectID = [l \in Loops |-> DefaultProjectID]
    /\ err = [l \in Loops |-> NoError]
    /\ ret = [l \in Loops |-> [id |-> DefaultProjectID, err |-> Pending]]
    /\ trace = [l \in Loops |-> <<>>]
    /\ lockHolder = [key \in LockKeys |-> NoHolder]
    /\ staleLease = {}
    /\ records = [k \in Kinds |-> AllRecords]
    /\ visited = [l \in Loops |-> <<>>]
    /\ rounds = [l \in Loops |-> 0]
    /\ via = [l \in Loops |-> "start"]

\* housekeeping.go with a page size of at least one project.
Init == Setup(1..MaxFetchSize, {"current"}, {OwnHost})

\* --------------------------------------------------------------- actions
\* The executor returns (id, e) to its Attach loop.
Return(l, e, top) ==
    /\ ret' = [ret EXCEPT ![l] = [id |-> ReturnID(e, top), err |-> e]]
    /\ pc' = [pc EXCEPT ![l] = "returned"]
    /\ UNCHANGED cursor

\* A return statement at `position` with error e: straight back to the
\* loop, or through the deferred Unlock.
Exit(l, position, e, top) ==
    /\ err' = [err EXCEPT ![l] = e]
    /\ IF ExitOf(position) = "return"
       THEN Return(l, e, top)
       ELSE /\ pc' = [pc EXCEPT ![l] = "unlock"]
            /\ UNCHANGED <<cursor, ret>>

Logged(l, ev) == trace' = [trace EXCEPT ![l] = Append(@, ev)]

\* A panic that no goroutine recovers ends the process of replica r with
\* all its goroutines; the locks its other sweep holds stay with the
\* coordinator, apart from the one (key) the panicking sweep is unlocking.
Crash(r) ==
    /\ pc' = [m \in Loops |->
                IF host[m[1]] = host[r] /\ pc[m] # "idle"
                THEN "crashed" ELSE pc[m]]
    /\ UNCHANGED <<cursor, ret>>

Orphaned(r, key) ==
    {other \in LockKeys \ {key} :
        \E q \in Replicas : host[q] = host[r] /\ lockHolder[other] = q}

\* Housekeeping.Stop: cancels h.ctx, which all the goroutines of the
\* instance share.
Stop(r) ==
    /\ \E l \in Loops :
          host[l[1]] = host[r] /\ pc[l] \notin {"idle", "crashed"}
    /\ ~cancelled[r]
    /\ cancelled' = [q \in Replicas |-> cancelled[q] \/ host[q] = host[r]]
    /\ UNCHANGED <<config, history, via, pc, cursor, locals, ret, trace, locks, records>>

\* The call of the executor and its coordinator.NewLocker.
NewLocker(l) ==
    /\ pc[l] = "call"
    /\ \E ok \in BOOLEAN :
        /\ trace' = [trace EXCEPT ![l] = <<Ev("NewLocker", 0, ok)>>]
        /\ IF AfterNewLocker(ok) = "return"
           THEN Exit(l, "call", "newLocker", DefaultProjectID)
           ELSE /\ pc' = [pc EXCEPT ![l] = AfterNewLocker(ok)]
                /\ UNCHANGED <<cursor, ret, err>>
    /\ via' = [via EXCEPT ![l] = "none"]
    /\ UNCHANGED <<config, history, cancelled, projects, idx, candidates,
                   lastProjectID, locks, records>>

\* locker.Lock: succeeds only on a free lock; it fails on a held lock or on
\* a coordinator error (a blocked Lock is a Lock that has not returned yet).
Lock(l) ==
    /\ pc[l] = "lock"
    /\ \E ok \in BOOLEAN :
        /\ ok => lockHolder[LockNameOf(build[l[1]], l[2])] = NoHolder
        /\ lockHolder' = IF ok
                         THEN [lockHolder EXCEPT
                                  ![LockNameOf(build[l[1]], l[2])] = l[1]]
                         ELSE lockHolder
        /\ Logged(l, Ev("Lock", 0, ok))
        /\ IF AfterLock(ok) = "return"
           THEN Exit(l, "lock", "lock", DefaultProjectID)
           ELSE /\ pc' = [pc EXCEPT ![l] = AfterLock(ok)]
                /\ UNCHANGED <<cursor, ret, err>>
    /\ UNCHANGED <<config, history, via, cancelled, projects, idx, candidates,
                   lastProjectID, staleLease, records>>

\* The end of Find...Candidates (topProjectID) and the start of the action:
\* the range loop of deactivateCandidates has no turn on an empty batch.
FinishFind(l, page, cands) ==
    IF IndexOutOfRange(page, projectFetchSize)
    THEN \* the panic unwinds through the deferred Unlock
         /\ Exit(l, "list", Panic, DefaultProjectID)
         /\ idx' = [idx EXCEPT ![l] = 0]
         /\ UNCHANGED lastProjectID
    ELSE /\ lastProjectID' =
               [lastProjectID EXCEPT ![l] = TopProjectID(page, projectFetchSize)]
         /\ IF l[2] = "deactivate" /\ cands = <<>>
            THEN /\ Exit(l, "act", NoError, TopProjectID(page, projectFetchSize))
                 /\ idx' = [idx EXCEPT ![l] = 0]
            ELSE /\ pc' = [pc EXCEPT ![l] = "act"]
                 /\ idx' = [idx EXCEPT ![l] = 1]
                 /\ UNCHANGED <<cursor, ret, err>>

\* database.FindNextNCyclingProjectInfos, called by Find...Candidates.
ListProjects(l) ==
    /\ pc[l] = "list"
    /\ \E ok \in BOOLEAN :
        IF ok
        THEN LET page == FindNextNCyclingProjectInfos(projectFetchSize, cursor[l])
             IN  /\ projects' = [projects EXCEPT ![l] = page]
                 /\ Logged(l, Ev("List", Len(page), TRUE))
                 /\ IF page = <<>>
                    THEN FinishFind(l, page, <<>>)
                    ELSE /\ pc' = [pc EXCEPT ![l] = "lookup"]
                         /\ idx' = [idx EXCEPT ![l] = 1]
                         /\ UNCHANGED <<cursor, ret, err, lastProjectID>>
        ELSE /\ Logged(l, Ev("List", 0, FALSE))
             /\ Exit(l, "list", "list", DefaultProjectID)
             /\ UNCHANGED <<projects, idx, lastProjectID>>
    /\ UNCHANGED <<config, history, via, cancelled, candidates, locks, records>>

\* The per-project candidate lookup of the range loop over the page.
Lookup(l) ==
    /\ pc[l] = "lookup"
    /\ \E ok \in BOOLEAN :
        LET project == projects[l][idx[l]]
            infos == FindCandidatesPerProject(l[2], project,
                        LookupLimit(candidateLimit[l[2]], projectFetchSize))
            cands == IF ok THEN AppendInfos(candidates[l], infos)
                     ELSE candidates[l]
            next == AfterLookup(ok, idx[l], Len(projects[l]))
        IN  /\ Logged(l, Ev("Lookup", project, ok))
            /\ CASE next = "fail" ->
                      /\ candidates' = [candidates EXCEPT ![l] = <<>>]
                      /\ Exit(l, "lookup", "lookup", DefaultProjectID)
                      /\ UNCHANGED <<idx, lastProjectID>>
                 [] next = "next" ->
                      /\ candidates' = [candidates EXCEPT ![l] = cands]
                      /\ idx' = [idx EXCEPT ![l] = @ + 1]
                      /\ UNCHANGED <<pc, cursor, ret, err, lastProjectID>>
                 [] OTHER ->
                      /\ candidates' = [candidates EXCEPT ![l] = cands]
                      /\ FinishFind(l, projects[l], cands)
    /\ UNCHANGED <<config, history, via, cancelled, projects, locks, records>>

\* One turn of the range loop of deactivateCandidates: clients.Deactivate.
Deactivate(l) ==
    /\ pc[l] = "act"
    /\ l[2] = "deactivate"
    /\ \E ok \in BOOLEAN :
        LET c == candidates[l][idx[l]]
            n == Len(candidates[l])
            next == AfterDeactivate(ok, idx[l], n)
            call == Ev("Deactivate", c, ok)
        IN  /\ records' = IF ok
                          THEN [records EXCEPT !["deactivate"] = @ \ {c}]
                          ELSE records
            /\ CASE next = "fail" ->
                      /\ Logged(l, call)
                      /\ Exit(l, "act", "action", lastProjectID[l])
                      /\ UNCHANGED idx
                 [] next = "next" ->
                      /\ Logged(l, call)
                      /\ idx' = [idx EXCEPT ![l] = @ + 1]
                      /\ UNCHANGED <<pc, cursor, ret, err>>
                 [] OTHER ->
                      /\ trace' = [trace EXCEPT ![l] =
                            IF LogsResult(n)
                            THEN Append(Append(@, call), Ev("Log", idx[l], TRUE))
                            ELSE Append(@, call)]
                      /\ Exit(l, "act", NoError, lastProjectID[l])
                      /\ UNCHANGED idx
    /\ UNCHANGED <<config, history, via, cancelled, projects, candidates,
                   lastProjectID, locks>>

\* The one database.DeleteDocument call of DeleteDocument (HardDeletion in
\* part_000), made for every batch, the empty one included.  The store
\* reports how many documents it removed, and in part_000 an identity.
DeleteDocument(l) ==
    /\ pc[l] = "act"
    /\ l[2] = "delete"
    /\ \E ok \in BOOLEAN :
       \E deleted \in DeletedCounts(ok, Len(candidates[l])) :
       \E id \in ReturnedIDs(build[l[1]], ok, lastProjectID[l]) :
        LET batch == Range(candidates[l])
            n == Len(candidates[l])
            call == Ev("DeleteDocument", n, ok)
            e == AfterDelete(ok, deleted, n)
            top == DeleteResultID(build[l[1]], lastProjectID[l], id)
        IN  /\ records' = IF ok
                          THEN [records EXCEPT !["delete"] = @ \ batch]
                          ELSE records
            /\ trace' = [trace EXCEPT ![l] =
                  IF e = NoError /\ build[l[1]] # "part_000" /\ LogsResult(n)
                  THEN Append(Append(@, call), Ev("Log", deleted, TRUE))
                  ELSE Append(@, call)]
            /\ lastProjectID' = [lastProjectID EXCEPT ![l] = top]
            /\ Exit(l, "act", e, top)
    /\ UNCHANGED <<config, history, via, cancelled, projects, idx, candidates,
                   locks>>

\* The deferred locker.Unlock, then the return to the Attach loop.  A failed
\* Unlock is logged only; the coordinator may or may not have let go.
Unlock(l) ==
    /\ pc[l] = "unlock"
    /\ \E outcome \in {"released", "failedReleased", "failedHeld"} :
        LET key == LockNameOf(build[l[1]], l[2])
            mine == lockHolder[key] = l[1]
        IN  /\ Logged(l, Ev("Unlock", 0, outcome = "released"))
            /\ lockHolder' = IF mine /\ outcome # "failedHeld"
                             THEN [lockHolder EXCEPT ![key] = NoHolder]
                             ELSE lockHolder
            /\ staleLease' =
                  (IF mine /\ outcome = "failedHeld"
                   THEN staleLease \cup {key} ELSE staleLease)
                  \cup (IF err[l] = Panic THEN Orphaned(l[1], key) ELSE {})
            /\ IF err[l] = Panic
               THEN Crash(l[1])
               ELSE Return(l, AfterUnlock(err[l], outcome = "released"),
                           lastProjectID[l])
    /\ UNCHANGED <<config, history, via, cancelled, locals, records>>

\* The Attach loop takes the executor's result: it logs an error and
\* continues, or adopts the cursor and enters the select.  The executor's
\* locals are gone.
Iterate(l) ==
    /\ pc[l] = "returned"
    /\ cursor' = [cursor EXCEPT ![l] = AdoptCursor(@, ret[l].id, ret[l].err)]
    /\ pc' = [pc EXCEPT ![l] = AfterIteration(ret[l].err)]
    /\ projects' = [projects EXCEPT ![l] = <<>>]
    /\ idx' = [idx EXCEPT ![l] = 0]
    /\ candidates' = [candidates EXCEPT ![l] = <<>>]
    /\ lastProjectID' = [lastProjectID EXCEPT ![l] = DefaultProjectID]
    /\ err' = [err EXCEPT ![l] = NoError]
    /\ ret' = [ret EXCEPT ![l] = [id |-> DefaultProjectID, err |-> Pending]]
    /\ trace' = [trace EXCEPT ![l] = <<>>]
    /\ IF ret[l].err # NoError
       THEN UNCHANGED history
       ELSE /\ visited' = [visited EXCEPT ![l] =
                   IF cursor[l] = DefaultProjectID
                   THEN projects[l] ELSE LastN(@ \o projects[l], MaxProjects)]
            /\ rounds' = [rounds EXCEPT ![l] =
                   IF cursor[l] = DefaultProjectID
                   THEN 1 ELSE Min(@ + 1, MaxProjects + 1)]
    /\ via' = [via EXCEPT ![l] = ViaOf(ret[l].err)]
    /\ UNCHANGED <<config, cancelled, locks, records>>

\* The select of the Attach loop: the interval elapsed.
IntervalElapsed(l) ==
    /\ pc[l] = "wait"
    /\ pc' = [pc EXCEPT ![l] = "call"]
    /\ via' = [via EXCEPT ![l] = "interval"]
    /\ UNCHANGED <<config, history, cancelled, cursor, locals, ret, trace,
                   locks, records>>

\* The select of the Attach loop: h.ctx is done, the goroutine returns.
ContextDone(l) ==
    /\ ObservesCancel(pc[l])
    /\ cancelled[l[1]]
    /\ pc' = [pc EXCEPT ![l] = "stopped"]
    /\ UNCHANGED <<config, history, via, cancelled, cursor, locals, ret, trace,
                   locks, records>>

Next ==
    \/ \E r \in Replicas : Stop(r)
    \/ \E l \in Loops : NewLocker(l)
    \/ \E l \in Loops : Lock(l)
    \/ \E l \in Loops : ListProjects(l)
    \/ \E l \in Loops : Lookup(l)
    \/ \E l \in Loops : Deactivate(l)
    \/ \E l \in Loops : DeleteDocument(l)
    \/ \E l \in Loops : Unlock(l)
    \/ \E l \in Loops : Iterate(l)
    \/ \E l \in Loops : IntervalElapsed(l)
    \/ \E l \in Loops : ContextDone(l)

Spec == Init /\ [][Next]_vars

\* A goroutine that can take a step takes one; the select of a cancelled
\* loop picks among its ready cases at random, so a loop that comes to it
\* again and again takes the Done case.
LoopStep(l) ==
    \/ NewLocker(l) \/ Lock(l) \/ ListProjects(l) \/ Lookup(l)
    \/ Deactivate(l) \/ DeleteDocument(l) \/ Unlock(l) \/ Iterate(l)
    \/ IntervalElapsed(l)

FairSpec ==
    /\ Spec
    /\ \A l \in Loops : WF_vars(LoopStep(l)) /\ SF_vars(ContextDone(l))

\* Every configured page size, 0 included: New takes conf.ProjectFetchSize
\* as it is.
InitAnyFetchSize == Setup(0..MaxFetchSize, {"current"}, {OwnHost})

SpecAnyFetchSize == InitAnyFetchSize /\ [][Next]_vars

\* One attached loop that runs the older source, part_000.
InitPart000 ==
    /\ Setup(1..MaxFetchSize, {"part_000"}, {OwnHost})
    /\ Cardinality({l \in Loops : pc[l] # "idle"}) = 1

SpecPart000 == InitPart000 /\ [][Next]_vars

\* One attached loop under the fairness of FairSpec.
InitOneLoop ==
    /\ Init
    /\ Cardinality({l \in Loops : pc[l] # "idle"}) = 1

LiveSpec ==
    /\ InitOneLoop
    /\ [][Next]_vars
    /\ \A l \in Loops : WF_vars(LoopStep(l)) /\ SF_vars(ContextDone(l))

\* One Housekeeping instance runs the goroutines of every slot.
OneHost == [r \in Replicas |-> 1]

\* Housekeeping.Start: spawns both Attach loops, whatever is running
\* already.  The model follows at most MaxAttached loops: `followed` are
\* the ones of this call that it follows.
Start(r) ==
    /\ \A k \in Kinds : pc[<<r, k>>] = "idle"
    /\ \E followed \in (SUBSET Kinds) \ {{}} :
        /\ Cardinality({l \in Loops : pc[l] # "idle"}) + Cardinality(followed)
              <= MaxAttached
        /\ pc' = [l \in Loops |->
                    IF l[1] = r /\ l[2] \in followed THEN "call" ELSE pc[l]]
    /\ UNCHANGED <<config, history, via, cancelled, cursor, locals, ret, trace,
                   locks, records>>

\* One instance after the package function Start, whose Start method can be
\* called again.
InitStartAgain ==
    /\ Setup(1..MaxFetchSize, {"current"}, {OneHost})
    /\ numProjects * MaxAttached <= MaxProjects
    /\ \A l \in Loops : l[1] > 1 => pc[l] = "idle"

NextStartAgain ==
    \/ Next
    \/ \E r \in Replicas : Start(r)

SpecStartAgain == InitStartAgain /\ [][NextStartAgain]_vars

\* The entry points in the order housekeeping.go, package clients, part_000.
BuildRank(b) == CASE b = "current" -> 1 [] b = "clients" -> 2 [] OTHER -> 3

\* Replicas that run different entry points of the repository; replicas are
\* interchangeable, so they are taken in the order of their entry points.
MixedBuilds ==
    {b \in [Replicas -> Builds] :
        \A r, q \in Replicas : r < q => BuildRank(b[r]) < BuildRank(b[q])}

\* One loop of the same kind on every replica, each replica with entry
\* points of its own, and the smallest candidate limit.
InitMixedBuilds ==
    /\ Setup(1..MaxFetchSize, Builds, {OwnHost})
    /\ build \in MixedBuilds
    /\ \A k \in Kinds : candidateLimit[k] = 1
    /\ \E k \in Kinds : \A l \in Loops : pc[l] = "call" <=> l[2] = k

SpecMixedBuilds == InitMixedBuilds /\ [][Next]_vars

\* ================================================================ claims
InSweep(l) == pc[l] \in {"list", "lookup", "act", "unlock"}
StoreOps == {"List", "Lookup", "Deactivate", "DeleteDocument"}
Count(s, op) == Cardinality({i \in 1..Len(s) : s[i].op = op})
Acquired(s) == \E i \in 1..Len(s) : s[i].op = "Lock" /\ s[i].ok

\* The two parts of C1: the sweep positions, and a Lock on a held lock.
C1_AtMostOneInSweep ==
    \A k \in Kinds : \A r1, r2 \in Replicas :
        InSweep(<<r1, k>>) /\ InSweep(<<r2, k>>) => r1 = r2

C1_HeldLockRefuses ==
    \A l \in Loops :
        pc[l] = "lock" /\ lockHolder[LockKeyOf(l[2])] # NoHolder /\ pc'[l] # "lock"
            => pc'[l] = "returned" /\ ret'[l].err = "lock"

\* C1: for each sweep kind at most one replica is between a successful Lock
\* and its Unlock, and a Lock attempted while the lock is held does not
\* succeed: the caller stays blocked in Lock or returns the lock error.
C1_MutualExclusion == [](C1_AtMostOneInSweep) /\ [][C1_HeldLockRefuses]_vars

C1_Witness ==
    \E k \in Kinds :
        /\ InSweep(<<1, k>>)
        /\ pc[<<2, k>>] = "returned"
        /\ ret[<<2, k>>].err = "lock"

\* C2: a loop is at a store read or at its action only while its replica
\* holds the lock of its kind, and in every iteration each store call comes
\* after the successful Lock and before the Unlock.
C2_StoreCallsUnderLock ==
    \A l \in Loops :
        /\ pc[l] \in {"list", "lookup", "act"} =>
              /\ lockHolder[LockKeyOf(l[2])] = l[1]
              /\ LockKeyOf(l[2]) \notin staleLease
        /\ \A i \in 1..Len(trace[l]) :
              trace[l][i].op \in StoreOps =>
                  /\ \E j \in 1..(i - 1) :
                        trace[l][j].op = "Lock" /\ trace[l][j].ok
                  /\ \A j \in 1..(i - 1) : trace[l][j].op # "Unlock"

C2_Witness ==
    \E l \in Loops :
        /\ pc[l] = "returned"
        /\ Count(trace[l], "List") = 1
        /\ Count(trace[l], "Lookup") = 2
        /\ Count(trace[l], "Deactivate") = 2
        /\ Count(trace[l], "Unlock") = 1

\* C3: an iteration that acquired the lock has issued exactly one Unlock,
\* as its last call, when it returns, whatever the exit path; one that did
\* not acquire it issued none.  So a loop that is not inside a sweep holds
\* the lock of its kind only if an Unlock failed and left it held.
C3_OneReleasePerAcquire ==
    \A l \in Loops :
        /\ pc[l] = "returned" =>
              /\ Count(trace[l], "Unlock") = (IF Acquired(trace[l]) THEN 1 ELSE 0)
              /\ Acquired(trace[l]) => trace[l][Len(trace[l])].op = "Unlock"
        /\ ~InSweep(l) /\ lockHolder[LockKeyOf(l[2])] = l[1] =>
              LockKeyOf(l[2]) \in staleLease

C3_Witness ==
    \E l \in Loops :
        /\ pc[l] = "returned"
        /\ ret[l].err = "list"
        /\ Count(trace[l], "Unlock") = 1
        /\ trace[l][Len(trace[l])].ok
        /\ lockHolder[LockKeyOf(l[2])] = NoHolder

\* C4: a successful iteration returns the sentinel when its page is shorter
\* than projectFetchSize and the last project of the page otherwise; the
\* candidates found for the projects play no part.
C4_NextCursor ==
    \A l \in Loops :
        pc[l] = "returned" /\ ret[l].err = NoError =>
            /\ Len(projects[l]) < projectFetchSize => ret[l].id = DefaultProjectID
            /\ Len(projects[l]) >= projectFetchSize =>
                  ret[l].id = projects[l][Len(projects[l])]

C4_Witness ==
    \E l \in Loops :
        /\ pc[l] = "returned"
        /\ ret[l].err = NoError
        /\ Len(projects[l]) = projectFetchSize
        /\ Count(trace[l], "Lookup") = projectFetchSize
        /\ candidates[l] = <<>>
        /\ ret[l].id = projects[l][Len(projects[l])]

\* ceil(a/b), and the projects in the store's order.
CeilDiv(a, b) == (a + b - 1) \div b
AllProjects == [i \in 1..numProjects |-> i]

\* C5: in a store of T projects with page size P, the successful iterations
\* that follow a start from the sentinel fetch the projects in order, each
\* exactly once, all of them within ceil(T/P) iterations; the cursor is the
\* sentinel again after floor(T/P) + 1 iterations, which is ceil(T/P) unless
\* P divides T, where one more iteration fetches an empty page.
C5_CyclicCoverage ==
    \A l \in Loops :
        /\ visited[l] = [i \in 1..Len(visited[l]) |-> i]
        /\ Len(visited[l]) <= numProjects
        /\ rounds[l] >= CeilDiv(numProjects, projectFetchSize) /\ rounds[l] > 0
              => visited[l] = AllProjects
        /\ rounds[l] > 0 /\ cursor[l] = DefaultProjectID =>
              /\ rounds[l] = (numProjects \div projectFetchSize) + 1
              /\ visited[l] = AllProjects
        /\ cursor[l] # DefaultProjectID =>
              /\ rounds[l] <= numProjects \div projectFetchSize
              /\ cursor[l] = rounds[l] * projectFetchSize
              /\ Len(visited[l]) = cursor[l]

C5_Witness ==
    \E l \in Loops :
        /\ numProjects = 3
        /\ projectFetchSize = 2
        /\ pc[l] = "returned"
        /\ ret[l].err = NoError
        /\ cursor[l] = DefaultProjectID
        /\ rounds[l] = 2
        /\ visited[l] = <<1, 2, 3>>
        /\ projects[l] = <<1, 2>>

\* C5 as stated: after ceil(T/P) successful iterations from the sentinel the
\* cursor is the sentinel again.
C5_SentinelAfterCeil ==
    \A l \in Loops :
        pc[l] = "wait" /\ rounds[l] = CeilDiv(numProjects, projectFetchSize)
            => cursor[l] = DefaultProjectID

\* What a step may do to a cursor (C6).
C6_Step ==
    \A l \in Loops :
        /\ cursor'[l] # cursor[l] =>
              /\ pc[l] = "returned"
              /\ ret[l].err = NoError
              /\ cursor'[l] = ret[l].id
        /\ pc[l] = "returned" /\ ret[l].err # NoError /\ pc'[l] # pc[l] =>
              /\ pc'[l] = "call"
              /\ cursor'[l] = cursor[l]

\* C6: the cursor of a loop changes only when the loop takes the result of
\* an iteration that returned no error, and then to the returned identity;
\* after an iteration that returned an error the loop calls the executor
\* again with the cursor it had.
C6_CursorKeptOnError == [][C6_Step]_vars

C6_Witness ==
    \E l \in Loops :
        /\ pc[l] = "returned"
        /\ ret[l].err = "lookup"
        /\ ret[l].id = DefaultProjectID
        /\ cursor[l] # DefaultProjectID

\* The Deactivate calls of an iteration, in order, and the parts of C7.
DeactivateCalls(s) ==
    LET at == {i \in 1..Len(s) : s[i].op = "Deactivate"}
    IN  [j \in 1..Cardinality(at) |->
            s[CHOOSE i \in at : Cardinality({m \in at : m < i}) = j - 1]]

C7_PartialBatch ==
    \A l \in Loops :
        l[2] = "deactivate" /\ err[l] = "action" =>
            LET k == idx[l]
                calls == DeactivateCalls(trace[l])
            IN  /\ k \in 1..Len(candidates[l])
                /\ Len(calls) = k
                /\ \A i \in 1..k :
                      calls[i].arg = candidates[l][i] /\ calls[i].ok = (i < k)
                /\ pc[l] = "unlock" =>
                      /\ \A i \in 1..(k - 1) :
                            candidates[l][i] \notin records["deactivate"]
                      /\ \A i \in k..Len(candidates[l]) :
                            candidates[l][i] \in records["deactivate"]
                /\ pc[l] = "returned" =>
                      ret[l] = [id |-> DefaultProjectID, err |-> "action"]

C7_CursorKept ==
    \A l \in Loops :
        /\ pc[l] = "returned" /\ ret[l].err = "action" => cursor'[l] = cursor[l]
        /\ err[l] = "action" /\ pc[l] \in {"unlock", "returned"} /\ pc'[l] # pc[l]
              => records' = records

\* C7: when clients.Deactivate fails first on the k-th candidate of the
\* batch, the candidates before it are deactivated, the k-th and the later
\* ones are still eligible in the store, the calls made are exactly those
\* on candidates 1..k in order, the Unlock and the return undo nothing,
\* the iteration returns the error and the loop keeps its cursor.
C7_PartialFailure == [](C7_PartialBatch) /\ [][C7_CursorKept]_vars

C7_Witness ==
    \E l \in Loops :
        /\ l[2] = "deactivate"
        /\ pc[l] = "unlock"
        /\ err[l] = "action"
        /\ Len(candidates[l]) = 3
        /\ idx[l] = 2
        /\ candidates[l][1] \notin records["deactivate"]
        /\ candidates[l][3] \in records["deactivate"]

\* The errors of the two calls before the defer, and the parts of C8.
AcquireErrors == {"newLocker", "lock"}

C8_NoCalls ==
    \A l \in Loops :
        pc[l] = "returned" /\ ret[l].err \in AcquireErrors =>
            /\ \A i \in 1..Len(trace[l]) : trace[l][i].op \in {"NewLocker", "Lock"}
            /\ ret[l].id = DefaultProjectID
            /\ projects[l] = <<>> /\ candidates[l] = <<>>

C8_Step ==
    \A l \in Loops :
        /\ pc'[l] = "returned" /\ pc[l] # "returned" /\ ret'[l].err \in AcquireErrors
              => records' = records /\ lockHolder' = lockHolder
        /\ pc[l] = "returned" /\ ret[l].err \in AcquireErrors =>
              /\ cursor'[l] = cursor[l]
              /\ pc'[l] # pc[l] => records' = records /\ lockHolder' = lockHolder

\* C8: an iteration that returns the error of NewLocker or of Lock has made
\* no listing, no lookup, no action and no Unlock call; the step that fails
\* leaves the store and the locks as they were, and the loop keeps its
\* cursor.
C8_AcquireFailure == [](C8_NoCalls) /\ [][C8_Step]_vars

C8_Witness ==
    \E l \in Loops :
        /\ pc[l] = "returned"
        /\ ret[l].err = "lock"
        /\ cursor[l] # DefaultProjectID
        /\ lockHolder[LockKeyOf(l[2])] = NoHolder

\* C9: once Stop() has cancelled h.ctx, every attached loop of the replica
\* eventually is stopped, whatever its iterations return.
C9_StopTerminates ==
    \A l \in Loops :
        (cancelled[l[1]] /\ pc[l] # "idle") ~> (pc[l] = "stopped")

\* The steps of a loop around a cancellation, and its stopped state (C10).
C10_Step ==
    \A l \in Loops :
        /\ pc'[l] = "stopped" /\ pc[l] # "stopped" => pc[l] = "wait"
        /\ pc[l] = "stopped" =>
              /\ pc'[l] = "stopped"
              /\ trace'[l] = trace[l]
              /\ cursor'[l] = cursor[l]
        /\ cancelled[l[1]] /\ pc[l] \in {"lock", "list", "lookup", "act", "unlock"}
              /\ pc'[l] # pc[l]
              => pc'[l] \in {"list", "lookup", "act", "unlock", "returned"}

C10_Returned ==
    \A l \in Loops :
        pc[l] = "stopped" =>
            /\ trace[l] = <<>>
            /\ lockHolder[LockKeyOf(l[2])] = l[1] => LockKeyOf(l[2]) \in staleLease

\* C10: a loop becomes stopped only from its select; an iteration under way
\* when h.ctx is cancelled goes on through its calls to its return, the
\* Unlock included; a stopped loop takes no further step.
C10_StopOnlyAtWait == [](C10_Returned) /\ [][C10_Step]_vars

C10_Witness ==
    \E l \in Loops :
        /\ cancelled[l[1]]
        /\ pc[l] = "unlock"
        /\ err[l] = NoError
        /\ Count(trace[l], "Deactivate") = 2

\* What a loop does with the result of an iteration, and around its select
\* (C11).
C11_Step ==
    \A l \in Loops :
        /\ pc[l] = "returned" /\ ret[l].err # NoError /\ pc'[l] # pc[l] =>
              /\ pc'[l] = "call"
              /\ via'[l] = "retry"
        /\ pc[l] = "returned" /\ ret[l].err = NoError /\ pc'[l] # pc[l] =>
              /\ pc'[l] = "wait"
              /\ cursor'[l] = ret[l].id
        /\ pc'[l] = "wait" /\ pc[l] # "wait" =>
              pc[l] = "returned" /\ ret[l].err = NoError
        /\ pc[l] = "wait" /\ pc'[l] # "wait" =>
              \/ pc'[l] = "call" /\ via'[l] = "interval"
              \/ pc'[l] = "stopped"
        /\ pc[l] = "call" /\ via[l] = "retry" /\ pc'[l] # pc[l] =>
              pc'[l] \in {"lock", "returned"}

\* C11: after an iteration that returned an error the loop is back at the
\* call of the executor in one step, without the select, and from there it
\* calls the executor even when h.ctx is cancelled; after an iteration that
\* returned no error it adopts the returned cursor and enters the select,
\* which nothing else enters and which is left for the next call or for
\* the stop.
C11_RetryWithoutWait == [][C11_Step]_vars

C11_Witness ==
    \E l \in Loops :
        /\ pc[l] = "call"
        /\ via[l] = "retry"
        /\ cancelled[l[1]]
        /\ cursor[l] # DefaultProjectID

\* A step of loop l, and the parts of C12.
Stepped(l) == pc'[l] # pc[l] \/ trace'[l] # trace[l]

C12_NotBlocked ==
    \A l \in Loops :
        /\ pc[l] = "lock"
        /\ \A m \in Loops : m[2] = l[2] => ~InSweep(m)
        /\ LockKeyOf(l[2]) \notin staleLease
        => /\ lockHolder[LockKeyOf(l[2])] = NoHolder
           /\ ENABLED (Lock(l) /\ pc'[l] = "list")

C12_Step ==
    \A l, m \in Loops :
        l[2] # m[2] /\ Stepped(l) =>
            /\ cursor'[m] = cursor[m]
            /\ lockHolder'[LockKeyOf(m[2])] = lockHolder[LockKeyOf(m[2])]

\* C12: the two sweeps name different locks; a loop about to Lock finds the
\* lock of its kind free, and can take it, whenever no loop of its own kind
\* is in a sweep or left a lease behind, whatever the loops of the other
\* kind hold, wait for or fail on; and a step of a loop of one kind changes
\* neither the cursor nor the lock of the other kind.
C12_KindsIndependent ==
    /\ [](deactivateCandidatesKey # documentHardDeletionLockKey)
    /\ [](C12_NotBlocked)
    /\ [][C12_Step]_vars

C12_Witness ==
    \E r \in Replicas :
        /\ pc[<<r, "deactivate">>] = "act"
        /\ pc[<<r, "delete">>] = "act"
        /\ cursor[<<r, "deactivate">>] # cursor[<<r, "delete">>]

\* Tenant t is in the page of a successful iteration of loop l; the loops
\* and tenants C13 says nothing about.
C13_Fetched(l, t) ==
    pc[l] = "returned" /\ ret[l].err = NoError /\ t \in Range(projects[l])

C13_NotConcerned(l, t) == pc[l] = "idle" \/ t > numProjects

\* C13: no page is longer than projectFetchSize, and a loop that is never
\* stopped and whose iterations, from some point on, all return no error
\* has every tenant of the store in the page of a successful iteration
\* again and again.
C13_EveryTenantAgain ==
    /\ [](\A l \in Loops : Len(projects[l]) <= projectFetchSize)
    /\ \A l \in Loops : \A t \in 1..MaxProjects :
          ([](pc[l] # "stopped")
              /\ <>[](pc[l] = "returned" => ret[l].err = NoError))
          => []<>(C13_NotConcerned(l, t) \/ C13_Fetched(l, t))

C13_Witness ==
    \E l \in Loops :
        /\ numProjects >= 2
        /\ C13_Fetched(l, 1)
        /\ cursor[l] = DefaultProjectID
        /\ rounds[l] >= 2
        /\ visited[l] = AllProjects

\* The candidates of tenant t in a batch.
PerTenant(cands, t) ==
    Cardinality({i \in 1..Len(cands) : cands[i] \in RecordsOf(t)})

\* C14: at every point of an iteration the batch holds at most
\* candidateLimitPerProject candidates of any one tenant, however many
\* eligible records the tenant has, and at most projectFetchSize times
\* candidateLimitPerProject candidates in all.
C14_BoundedBatch ==
    \A l \in Loops :
        /\ \A t \in 1..numProjects :
              PerTenant(candidates[l], t) <= candidateLimit[l[2]]
        /\ Len(candidates[l]) <= projectFetchSize * candidateLimit[l[2]]

C14_Witness ==
    \E l \in Loops :
        /\ pc[l] = "act"
        /\ idx[l] = 1
        /\ Len(projects[l]) = 2
        /\ Len(candidates[l]) = projectFetchSize * candidateLimit[l[2]]
        /\ \A t \in Range(projects[l]) :
              /\ Cardinality(records[l[2]] \cap RecordsOf(t)) > candidateLimit[l[2]]
              /\ PerTenant(candidates[l], t) = candidateLimit[l[2]]

\* The calls of an iteration that succeeded, and the iterations whose
\* listing and lookups all succeeded.
CountOk(s, op) == Cardinality({i \in 1..Len(s) : s[i].op = op /\ s[i].ok})

FindSucceeded(l) ==
    /\ CountOk(trace[l], "List") = 1
    /\ CountOk(trace[l], "Lookup") = Len(projects[l])
    /\ pc[l] \in {"act", "unlock", "returned"}

\* C15: an iteration of either kind whose lookups found no candidate makes
\* no Deactivate and no DeleteDocument call, returns no error, and returns
\* the cursor of the pagination rule.
C15_NothingAttempted ==
    \A l \in Loops :
        FindSucceeded(l) /\ candidates[l] = <<>> /\ err[l] # Panic =>
            /\ Count(trace[l], "Deactivate") = 0
            /\ Count(trace[l], "DeleteDocument") = 0
            /\ err[l] = NoError
            /\ pc[l] = "returned" =>
                  ret[l] = [id |-> TopProjectID(projects[l], projectFetchSize),
                            err |-> NoError]

\* C16: an iteration whose listing returned no tenant ends without a panic,
\* with the sentinel as its next cursor and without a candidate, for every
\* projectFetchSize, 0 included.
C16_EmptyPageCompletes ==
    \A l \in Loops :
        CountOk(trace[l], "List") = 1 /\ projects[l] = <<>> =>
            /\ err[l] # Panic
            /\ pc[l] # "crashed"
            /\ lastProjectID[l] = DefaultProjectID
            /\ candidates[l] = <<>>
            /\ Count(trace[l], "Deactivate") = 0
            /\ pc[l] = "returned" /\ ret[l].err = NoError =>
                  ret[l].id = DefaultProjectID

\* Every call of the iteration before its Unlock succeeded.
AllOkBeforeUnlock(s) == \A i \in 1..(Len(s) - 1) : s[i].ok

\* The result of an iteration that ran its Unlock, and the loop's step on
\* it (C17).
C17_Result ==
    \A l \in Loops :
        pc[l] = "returned" /\ Count(trace[l], "Unlock") = 1 =>
            /\ (ret[l].err = NoError) = AllOkBeforeUnlock(trace[l])
            /\ ret[l].id = IF AllOkBeforeUnlock(trace[l])
                           THEN TopProjectID(projects[l], projectFetchSize)
                           ELSE DefaultProjectID

C17_Step ==
    \A l \in Loops :
        /\ pc[l] = "unlock" /\ pc'[l] # pc[l] =>
              /\ pc'[l] = "returned"
              /\ ret'[l] = [id |-> ReturnID(err[l], lastProjectID[l]),
                            err |-> err[l]]
        /\ pc[l] = "returned" /\ pc'[l] # pc[l]
              /\ AllOkBeforeUnlock(trace[l]) /\ Count(trace[l], "Unlock") = 1
              => pc'[l] = "wait" /\ cursor'[l] = ret[l].id

\* C17: what an iteration returns is decided by its calls before the
\* Unlock and is the same whether the Unlock succeeds or fails; after an
\* iteration whose other calls all succeeded the loop adopts the cursor and
\* enters the select even when the Unlock failed.
C17_ReleaseFailureIgnored == [](C17_Result) /\ [][C17_Step]_vars

C17_Witness ==
    \E l \in Loops :
        /\ pc[l] = "wait"
        /\ cursor[l] # DefaultProjectID
        /\ lockHolder[LockKeyOf(l[2])] = l[1]
        /\ LockKeyOf(l[2]) \in staleLease

\* C18: the cursor of a loop is the sentinel or the last tenant of the page
\* that the listing returned to the loop's most recent successful
\* iteration, for both kinds: what the action returns plays no part.
C18_CursorFromListing ==
    \A l \in Loops :
        \/ cursor[l] = DefaultProjectID
        \/ /\ visited[l] # <<>>
           /\ cursor[l] = visited[l][Len(visited[l])]

\* The DeleteDocument call of an iteration (C19).
DeleteCall(s) == s[CHOOSE i \in 1..Len(s) : s[i].op = "DeleteDocument"]

C19_OneCall ==
    \A l \in Loops :
        l[2] = "delete" /\ FindSucceeded(l) =>
            /\ Count(trace[l], "DeleteDocument") = (IF pc[l] = "act" THEN 0 ELSE 1)
            /\ pc[l] # "act" =>
                  /\ DeleteCall(trace[l]).arg = Len(candidates[l])
                  /\ err[l] = (IF DeleteCall(trace[l]).ok THEN NoError ELSE "action")
                  /\ DeleteCall(trace[l]).ok =>
                        Range(candidates[l]) \cap records["delete"] = {}
                  /\ pc[l] = "returned" =>
                        ret[l] = IF DeleteCall(trace[l]).ok
                                 THEN [id |-> TopProjectID(projects[l], projectFetchSize),
                                       err |-> NoError]
                                 ELSE [id |-> DefaultProjectID, err |-> "action"]

C19_Step ==
    \A l \in Loops :
        l[2] = "delete" /\ pc[l] = "returned" /\ pc'[l] # pc[l]
            /\ Count(trace[l], "DeleteDocument") = 1
            => IF DeleteCall(trace[l]).ok
               THEN pc'[l] = "wait" /\ cursor'[l] = ret[l].id
               ELSE pc'[l] = "call" /\ cursor'[l] = cursor[l]

\* C19: a hard-deletion iteration whose lookups succeeded makes exactly one
\* DeleteDocument call, with its whole batch; when the call succeeds the
\* iteration returns the cursor of the listing and no error, whatever
\* count the store reports, and the loop adopts the cursor; when the call
\* fails the iteration returns the error and the loop keeps its cursor.
C19_WholeBatchOneCall == [](C19_OneCall) /\ [][C19_Step]_vars

C19_Witness ==
    \E l \in Loops :
        /\ l[2] = "delete"
        /\ pc[l] = "returned"
        /\ ret[l].err = NoError
        /\ ret[l].id # DefaultProjectID
        /\ Len(candidates[l]) >= 2
        /\ \E i \in 1..Len(trace[l]) :
              /\ trace[l][i].op = "Log"
              /\ trace[l][i].arg < Len(candidates[l])

\* The lookup results of the first n tenants of a page, one after another.
RECURSIVE ConcatLookups(_, _, _)
ConcatLookups(k, page, n) ==
    IF n = 0 THEN <<>>
    ELSE ConcatLookups(k, page, n - 1)
             \o FindCandidatesPerProject(k, page[n], candidateLimit[k])

\* C20: while the page is looked up the batch is the concatenation of the
\* lookup results of the tenants done so far, in the order of the page;
\* the batch the action starts on is that of the whole page; and the
\* Deactivate calls are made on the candidates of the batch in its order.
C20_BatchInOrder ==
    \A l \in Loops :
        /\ pc[l] = "lookup" =>
              candidates[l] = ConcatLookups(l[2], projects[l], idx[l] - 1)
        /\ pc[l] = "act" /\ idx[l] = 1 =>
              candidates[l] = ConcatLookups(l[2], projects[l], Len(projects[l]))
        /\ l[2] = "deactivate" /\ FindSucceeded(l) =>
              LET calls == DeactivateCalls(trace[l])
              IN  /\ Len(calls) <= Len(candidates[l])
                  /\ \A i \in 1..Len(calls) : calls[i].arg = candidates[l][i]
                  /\ pc[l] = "act" => Len(calls) = idx[l] - 1
                  /\ err[l] = NoError /\ pc[l] # "act" =>
                        Len(calls) = Len(candidates[l])

C20_Witness ==
    \E l \in Loops :
        /\ l[2] = "deactivate"
        /\ pc[l] = "unlock"
        /\ err[l] = NoError
        /\ Len(projects[l]) = 2
        /\ Len(candidates[l]) = 4
        /\ Len(DeactivateCalls(trace[l])) = 4

\* ------------------------------------------------------------------ C21
\* A loop that is inside a call of its executor.
InExecutor(l) == pc[l] \in {"lock", "list", "lookup", "act", "unlock"}

\* A running Attach loop: it has a cursor that it reads and writes.
Running(l) == pc[l] \notin {"idle", "stopped", "crashed"}

\* C21: within one Housekeeping instance, for each sweep kind at most one
\* executor call is in progress and at most one loop keeps a cursor of that
\* kind, whatever Start and Stop calls were made.
C21_OneLoopPerKind ==
    \A l, m \in Loops :
        l # m /\ host[l[1]] = host[m[1]] /\ l[2] = m[2] =>
            /\ ~(InExecutor(l) /\ InExecutor(m))
            /\ ~(Running(l) /\ Running(m))

\* ------------------------------------------------------------------ C22
\* The batch-result log lines of the iteration of loop l.
LogLines(l) ==
    {i \in 1..Len(trace[l]) : trace[l][i].op = "Log"}

\* The iteration of loop l is over (all but the deferred Unlock) with
\* error e.
Ended(l, e) ==
    \/ pc[l] = "unlock" /\ err[l] = e
    \/ pc[l] = "returned" /\ ret[l].err = e

\* C22: an iteration writes a batch-result log line exactly when it succeeds
\* with a non-empty batch of candidates: one line then, none for an empty
\* batch, none for an iteration that returns an error and none before the
\* action is through; the line of a client deactivation reports as many
\* deactivations as the batch has candidates.
C22_LogOnFullSuccess ==
    \A l \in Loops :
        /\ Cardinality(LogLines(l)) =
              (IF Ended(l, NoError) /\ Len(candidates[l]) > 0 THEN 1 ELSE 0)
        /\ l[2] = "deactivate" =>
              \A i \in LogLines(l) : trace[l][i].arg = Len(candidates[l])

C22_Witness ==
    \E l \in Loops :
        /\ l[2] = "deactivate"
        /\ pc[l] = "returned"
        /\ ret[l].err = NoError
        /\ Len(candidates[l]) = 2
        /\ \E i \in LogLines(l) : trace[l][i].arg = 2

\* ------------------------------------------------------------------ C23
Reads == {"List", "Lookup"}
SideEffects == {"Deactivate", "DeleteDocument"}

\* The iteration of loop l has a failed store read behind it.
ReadFailed(l) ==
    \E i \in 1..Len(trace[l]) : trace[l][i].op \in Reads /\ ~trace[l][i].ok

C23_ReadsFirst ==
    \A l \in Loops :
        /\ \A i, j \in 1..Len(trace[l]) :
              trace[l][i].op \in SideEffects /\ trace[l][j].op \in Reads => j < i
        /\ ReadFailed(l) =>
              /\ \A i \in 1..Len(trace[l]) : trace[l][i].op \notin SideEffects
              /\ pc[l] \in {"unlock", "returned"}
              /\ candidates[l] = <<>>

C23_FailedReadStep ==
    \A l \in Loops :
        ~ReadFailed(l) /\ ReadFailed(l)' => records' = records

\* C23: in one iteration every store read comes before every side effect,
\* and an iteration whose tenant listing or candidate lookup has failed has
\* made no Deactivate and no DeleteDocument call, drops the candidates it
\* had collected from earlier tenants of the page, and ends; the failing
\* read leaves the records of the store as they were.
C23_NoSideEffectAfterFailedRead ==
    [](C23_ReadsFirst) /\ [][C23_FailedReadStep]_vars

C23_Witness ==
    \E l \in Loops :
        /\ pc[l] = "unlock"
        /\ err[l] = "lookup"
        /\ Len(projects[l]) = 2
        /\ \E i \in 1..Len(trace[l]) :
              /\ trace[l][i].op = "Lookup"
              /\ trace[l][i].ok
              /\ trace[l][i].arg = projects[l][1]
        /\ FindCandidatesPerProject(l[2], projects[l][1], 1) # <<>>

\* ------------------------------------------------------------------ C24
\* Loop l is in its sweep with the lock of its entry point in hand.
HoldsLock(l) ==
    /\ InSweep(l)
    /\ lockHolder[LockNameOf(build[l[1]], l[2])] = l[1]

\* C24: the sweep entry points of one kind exclude each other, whichever of
\* them two replicas run: no two loops of the same kind are in their sweeps
\* together.
C24_EntryPointsExclude ==
    \A l, m \in Loops :
        l # m /\ l[2] = m[2] => ~(HoldsLock(l) /\ HoldsLock(m))

====
